---- MODULE Spec2Model ----
(***************************************************************************)
(* Model of the restaurant directory service of src/main.py: the SQLite    *)
(* table `restaurants`, the route table of the FastAPI application, the    *)
(* five CRUD handlers, the startup import and the statistics handler       *)
(* (validation, record read, haversine filter, count / mean / sample       *)
(* standard deviation).                                                    *)
(*                                                                         *)
(* Numbers.  Python floats are modelled in fixed point: angles are whole   *)
(* degrees on a 30-degree grid, trigonometric values, avg and std are      *)
(* integers in thousandths (Scale), distances are whole metres.            *)
(* Optional values are sequences: <<>> is None, <<v>> is the value v.      *)
(* Of the eleven columns of a record the model keeps id, rating, lat and   *)
(* lng; the seven remaining text columns are copied by every handler in    *)
(* the same way as rating and take part in no decision.                    *)
(***************************************************************************)
EXTENDS Integers, Sequences, FiniteSets, TLC

VARIABLES store, stat, last

vars == <<store, stat, last>>

----------------------------------------------------------------------------
(* Bounds of the model *)

\* number of numbered record identifiers ("1", "2", ...) besides "statistics"
NumIds == 2

\* number of statistics requests that can be in progress at the same time
NumProcs == 2

----------------------------------------------------------------------------
(* Value domains *)

None == <<>>

Some(v) == <<v>>

Scale == 1000

Procs == 1 .. NumProcs

Ids == {"statistics"} \cup {ToString(i) : i \in 1 .. NumIds}

Ratings == {1, 3, 5}

Places == {<<0, 0>>, <<30, 60>>}

Restaurant(id, rating, lat, lng) ==
    [id |-> id, rating |-> rating, lat |-> lat, lng |-> lng]

\* rating, lat and lng of the bodies of the POST and PUT requests
Contents == {<<1, 0, 0>>, <<3, 0, 0>>, <<5, 30, 60>>}

Bodies == {Restaurant(i, c[1], c[2], c[3]) : i \in Ids, c \in Contents}

\* contents of restaurantes.csv: the first file repeats the id "1"
CsvFiles ==
    { << Restaurant("1", 1, 0, 0), Restaurant("2", 3, 0, 0),
         Restaurant("1", 5, 30, 60) >>,
      << Restaurant("statistics", 5, 0, 0), Restaurant("1", 3, 0, 0) >> }

Faults == {"none", "connect", "execute"}

----------------------------------------------------------------------------
(* math: sin, cos, sqrt, atan2 in thousandths *)

SinTable == <<0, 259, 500, 707, 866, 966, 1000>>

RECURSIVE sin(_)
\* sine of an angle given in degrees (a multiple of 15), in thousandths
sin(deg) ==
    IF deg < 0 THEN 0 - sin(0 - deg)
    ELSE IF deg >= 360 THEN sin(deg - 360)
    ELSE IF deg > 180 THEN 0 - sin(deg - 180)
    ELSE IF deg > 90 THEN sin(180 - deg)
    ELSE SinTable[(deg \div 15) + 1]

cos(deg) == sin(90 - deg)

RECURSIVE SqrtSearch(_, _, _)
SqrtSearch(n, lo, hi) ==
    IF lo >= hi THEN lo
    ELSE LET mid == (lo + hi + 1) \div 2
         IN  IF mid * mid <= n THEN SqrtSearch(n, mid, hi)
             ELSE SqrtSearch(n, lo, mid - 1)

\* integer square root (rounded down)
sqrt(n) == SqrtSearch(n, 0, 46340)

\* arc tangent of t/Scale for 0 <= t <= Scale, in milliradians
atan(t) == (t * (785 + (273 * (Scale - t)) \div Scale)) \div Scale

\* math.atan2 for y >= 0, x >= 0, in milliradians
atan2(y, x) ==
    IF y = 0 THEN 0
    ELSE IF y <= x THEN atan((y * Scale) \div x)
    ELSE 1571 - atan((x * Scale) \div y)

\* great-circle distance in metres between two points given in degrees
haversine_distance(lat1, lon1, lat2, lon2) ==
    LET R == 6371
        sdlat == sin((lat2 - lat1) \div 2)
        sdlon == sin((lon2 - lon1) \div 2)
        a == sdlat * sdlat
             + ((sdlon * sdlon) \div Scale) * ((cos(lat1) * cos(lat2)) \div Scale)
        c == 2 * atan2(sqrt(a), sqrt(Scale * Scale - a))
    IN  R * c

----------------------------------------------------------------------------
(* Inputs of the statistics request *)

\* the distance between the two places, used as a radius on the boundary
BoundaryRadius == haversine_distance(0, 0, 30, 60)

Latitudes == {None, Some(0), Some(90), Some(200)}

Longitudes == {None, Some(0), Some(200)}

Radii == {None, Some(0), Some(1), Some(BoundaryRadius)}

----------------------------------------------------------------------------
(* The restaurants table: a set of rows, id being the PRIMARY KEY *)

HasId(S, id) == \E r \in S : r.id = id

\* SELECT * FROM restaurants WHERE id=?  followed by fetchone()
SelectById(S, id) ==
    IF HasId(S, id) THEN Some(CHOOSE r \in S : r.id = id) ELSE None

\* Insert without the primary key (a table created without PRIMARY KEY)
Insert_nokey(S, r) == [error |-> FALSE, table |-> S \cup {r}]

\* INSERT INTO restaurants: the outcome and the table afterwards
Insert(S, r) ==
    IF HasId(S, r.id) THEN [error |-> TRUE, table |-> S]
    ELSE [error |-> FALSE, table |-> S \cup {r}]

\* INSERT OR IGNORE INTO restaurants
InsertOrIgnore(S, r) == IF HasId(S, r.id) THEN S ELSE S \cup {r}

\* UpdateRows as an upsert: a missing row is inserted
UpdateRows_upsert(S, id, b) ==
    IF \E r \in S : r.id = id
      THEN {IF r.id = id
               THEN [r EXCEPT !.rating = b.rating, !.lat = b.lat, !.lng = b.lng]
               ELSE r : r \in S}
      ELSE S \cup {[b EXCEPT !.id = id]}

\* UPDATE restaurants SET rating=?, ..., lat=?, lng=? WHERE id=?
UpdateRows(S, id, b) ==
    {IF r.id = id
        THEN [r EXCEPT !.rating = b.rating, !.lat = b.lat, !.lng = b.lng]
        ELSE r : r \in S}

\* DELETE FROM restaurants WHERE id=?
DeleteRows(S, id) == {r \in S : r.id # id}

\* cursor.rowcount after an UPDATE or DELETE ... WHERE id=?
RowCount(S, id) == Cardinality({r \in S : r.id = id})

EmptyRows == [t \in {} |-> 0]

\* SELECT rating, lat, lng FROM restaurants: the rows with their multiplicity
SelectRatingLatLng(S) ==
    [t \in {<<r.rating, r.lat, r.lng>> : r \in S} |->
        Cardinality({r \in S : <<r.rating, r.lat, r.lng>> = t})]

RECURSIVE ImportRows(_, _)
\* the loop over the csv rows of create_table_and_import_data
ImportRows(S, rows) ==
    IF rows = <<>> THEN S
    ELSE ImportRows(InsertOrIgnore(S, Head(rows)), Tail(rows))

----------------------------------------------------------------------------
(* The route table, in registration order *)

Routes ==
    << [method |-> "GET", path |-> <<"restaurants">>,
        handler |-> "get_all_restaurants"],
       [method |-> "GET", path |-> <<"restaurants", "{restaurant_id}">>,
        handler |-> "get_restaurant_by_id"],
       [method |-> "POST", path |-> <<"restaurants">>,
        handler |-> "create_restaurant"],
       [method |-> "PUT", path |-> <<"restaurants", "{restaurant_id}">>,
        handler |-> "update_restaurant"],
       [method |-> "DELETE", path |-> <<"restaurants", "{restaurant_id}">>,
        handler |-> "delete_restaurant"],
       [method |-> "GET", path |-> <<"restaurants", "statistics">>,
        handler |-> "get_restaurants_statistics"] >>

\* a path matches a pattern segment by segment; {restaurant_id} matches any
Matches(route, method, path) ==
    /\ route.method = method
    /\ Len(route.path) = Len(path)
    /\ \A i \in 1 .. Len(path) :
          route.path[i] = "{restaurant_id}" \/ route.path[i] = path[i]

\* the handler of the first route that matches
Route(method, path) ==
    LET hits == {i \in 1 .. Len(Routes) : Matches(Routes[i], method, path)}
    IN  IF hits = {} THEN "none"
        ELSE Routes[CHOOSE i \in hits : \A j \in hits : i <= j].handler

----------------------------------------------------------------------------
(* Responses *)

HTTPException(status, detail) ==
    [status |-> status, kind |-> "http", detail |-> detail, body |-> {}]

\* an exception no handler catches: the framework answers 500
Unhandled(exception) ==
    [status |-> 500, kind |-> "unhandled", detail |-> exception, body |-> {}]

Returned(body) ==
    [status |-> 200, kind |-> "ok", detail |-> "", body |-> body]

NoResponse == [status |-> 0, kind |-> "none", detail |-> "", body |-> {}]

NoQuery == <<None, None, None>>

\* the record of the last request served by a CRUD handler
Served(method, path, handler, id, query, fault, response, conn) ==
    [method |-> method, path |-> path,
     handler |-> handler, id |-> id, query |-> query, fault |-> fault,
     status |-> response.status, kind |-> response.kind,
     detail |-> response.detail, body |-> response.body, conn |-> conn]

\* try / except sqlite3.Error / finally of the five CRUD handlers: a failing
\* connect leaves conn unbound and the finally clause raises in its turn
Guarded(fault, response) ==
    IF fault = "connect" THEN Unhandled("UnboundLocalError")
    ELSE IF fault = "execute" THEN HTTPException(500, "Database error occurred")
    ELSE response

ConnAfter(fault) == IF fault = "connect" THEN "none" ELSE "closed"

----------------------------------------------------------------------------
(* Startup and the CRUD handlers *)

create_table_and_import_data(csv) ==
    /\ store' = ImportRows(store, csv)
    /\ last' = Served("", <<>>, "startup_event", "", NoQuery, "none", NoResponse, "closed")
    /\ UNCHANGED stat

get_all_restaurants(fault) ==
    /\ Route("GET", <<"restaurants">>) = "get_all_restaurants"
    /\ last' = Served("GET", <<"restaurants">>, "get_all_restaurants", "", NoQuery, fault,
                      Guarded(fault, Returned(store)), ConnAfter(fault))
    /\ UNCHANGED <<store, stat>>

get_restaurant_by_id(restaurant_id, query, fault) ==
    /\ Route("GET", <<"restaurants", restaurant_id>>) = "get_restaurant_by_id"
    /\ LET row == SelectById(store, restaurant_id)
           response == IF row = None
                         THEN HTTPException(404, "Restaurant not found")
                         ELSE Returned({row[1]})
       IN  last' = Served("GET", <<"restaurants", restaurant_id>>,
                          "get_restaurant_by_id", restaurant_id, query, fault,
                          Guarded(fault, response), ConnAfter(fault))
    /\ UNCHANGED <<store, stat>>

create_restaurant(restaurant, fault) ==
    /\ Route("POST", <<"restaurants">>) = "create_restaurant"
    /\ LET done == Insert(store, restaurant)
           response == IF done.error
                         THEN HTTPException(500, "Database error occurred")
                         ELSE Returned({restaurant})
       IN  /\ store' = IF fault = "none" THEN done.table ELSE store
           /\ last' = Served("POST", <<"restaurants">>,
                             "create_restaurant", restaurant.id, NoQuery, fault,
                             Guarded(fault, response), ConnAfter(fault))
    /\ UNCHANGED stat

update_restaurant(restaurant_id, restaurant, fault) ==
    /\ Route("PUT", <<"restaurants", restaurant_id>>) = "update_restaurant"
    /\ LET response ==
               IF RowCount(store, restaurant_id) = 0
                 THEN HTTPException(404, "Restaurant not found")
                 ELSE Returned({[restaurant EXCEPT !.id = restaurant_id]})
       IN  /\ store' = IF fault = "none"
                         THEN UpdateRows(store, restaurant_id, restaurant)
                         ELSE store
           /\ last' = Served("PUT", <<"restaurants", restaurant_id>>,
                             "update_restaurant", restaurant_id, NoQuery, fault,
                             Guarded(fault, response), ConnAfter(fault))
    /\ UNCHANGED stat

delete_restaurant(restaurant_id, fault) ==
    /\ Route("DELETE", <<"restaurants", restaurant_id>>) = "delete_restaurant"
    /\ LET response ==
               IF RowCount(store, restaurant_id) = 0
                 THEN HTTPException(404, "Restaurant not found")
                 ELSE [Returned({}) EXCEPT
                         !.detail = "Restaurant deleted successfully"]
       IN  /\ store' = IF fault = "none"
                         THEN DeleteRows(store, restaurant_id)
                         ELSE store
           /\ last' = Served("DELETE", <<"restaurants", restaurant_id>>,
                             "delete_restaurant", restaurant_id, NoQuery, fault,
                             Guarded(fault, response), ConnAfter(fault))
    /\ UNCHANGED stat

----------------------------------------------------------------------------
(* The statistics engine *)

RECURSIVE Sum(_, _)
\* the sum of f[t] over the elements t of D
Sum(f, D) ==
    IF D = {} THEN 0
    ELSE LET t == CHOOSE u \in D : TRUE IN f[t] + Sum(f, D \ {t})

\* len(inside_circle)
len(rows) == Sum(rows, DOMAIN rows)

\* sum(row[0] for row in inside_circle)
sum(rows) == Sum([t \in DOMAIN rows |-> rows[t] * t[1]], DOMAIN rows)

\* validation with the range checks made before the presence check
validation_ranges_first(latitude, longitude, radius) ==
    IF latitude # None /\ ~(-90 <= latitude[1] /\ latitude[1] <= 90)
      THEN "Invalid latitude value. Must be between -90 and 90."
    ELSE IF longitude # None /\ ~(-180 <= longitude[1] /\ longitude[1] <= 180)
      THEN "Invalid longitude value. Must be between -180 and 180."
    ELSE IF radius # None /\ radius[1] <= 0
      THEN "Invalid radius value. Must be greater than 0."
    ELSE IF latitude = None \/ longitude = None \/ radius = None
      THEN "Latitude, longitude, and radius are required query parameters."
    ELSE ""

\* the first failing check of the statistics request, "" when all pass
validation(latitude, longitude, radius) ==
    IF latitude = None \/ longitude = None \/ radius = None
      THEN "Latitude, longitude, and radius are required query parameters."
    ELSE IF ~(-90 <= latitude[1] /\ latitude[1] <= 90)
      THEN "Invalid latitude value. Must be between -90 and 90."
    ELSE IF ~(-180 <= longitude[1] /\ longitude[1] <= 180)
      THEN "Invalid longitude value. Must be between -180 and 180."
    ELSE IF radius[1] <= 0
      THEN "Invalid radius value. Must be greater than 0."
    ELSE ""

\* inside_circle with a strict comparison
inside_circle_strict(rows, latitude, longitude, radius) ==
    [t \in {u \in DOMAIN rows :
               haversine_distance(latitude, longitude, u[2], u[3]) < radius}
       |-> rows[t]]

\* the rows within the circle
inside_circle(rows, latitude, longitude, radius) ==
    [t \in {u \in DOMAIN rows :
               haversine_distance(latitude, longitude, u[2], u[3]) <= radius}
       |-> rows[t]]

\* sum / count as a float, in thousandths
mean(rows) == (sum(rows) * Scale) \div len(rows)

\* stdev as the population standard deviation (statistics.pstdev)
stdev_population(rows) ==
    LET n == len(rows)
        total == sum(rows)
        ss == Sum([t \in DOMAIN rows |->
                     rows[t] * (n * t[1] - total) * (n * t[1] - total)],
                  DOMAIN rows)
    IN  sqrt((ss * Scale * Scale) \div (n * n * n))

\* statistics.stdev of the ratings of at least two rows, in thousandths:
\* the exact sum of squared deviations from the mean over n - 1, square-rooted
stdev(rows) ==
    LET n == len(rows)
        total == sum(rows)
        ss == Sum([t \in DOMAIN rows |->
                     rows[t] * (n * t[1] - total) * (n * t[1] - total)],
                  DOMAIN rows)
    IN  sqrt((ss * Scale * Scale) \div (n * n * (n - 1)))

Idle ==
    [pc |-> "idle", latitude |-> None, longitude |-> None, radius |-> None,
     fault |-> "none", conn |-> "none", rows |-> EmptyRows, reads |-> 0,
     snap |-> {}, inside |-> EmptyRows, resp |-> NoResponse]

\* lines 223-238: the call and the validation of its parameters
get_restaurants_statistics(p, latitude, longitude, radius) ==
    /\ stat[p].pc = "idle"
    /\ LET failed == validation(latitude, longitude, radius)
           call == [Idle EXCEPT !.latitude = latitude,
                                !.longitude = longitude, !.radius = radius]
       IN  stat' = [stat EXCEPT ![p] =
                      IF failed # ""
                        THEN [call EXCEPT !.pc = "done",
                                          !.resp = HTTPException(400, failed)]
                        ELSE [call EXCEPT !.pc = "connect"]]
    /\ UNCHANGED <<store, last>>

\* line 239: sqlite3.connect, outside any try
statistics_connect(p, fails) ==
    /\ stat[p].pc = "connect"
    /\ stat' = [stat EXCEPT ![p] =
                  IF fails
                    THEN [@ EXCEPT !.pc = "done", !.fault = "connect",
                                   !.resp = Unhandled("sqlite3.Error")]
                    ELSE [@ EXCEPT !.pc = "execute", !.conn = "open"]]
    /\ UNCHANGED <<store, last>>

\* lines 240-242: cursor.execute and cursor.fetchall, outside any try
statistics_read(p, fault) ==
    /\ stat[p].pc = "execute"
    /\ stat' = [stat EXCEPT ![p] =
                  IF fault # "none"
                    THEN [@ EXCEPT !.pc = "done", !.fault = fault,
                                   !.resp = Unhandled("sqlite3.Error")]
                    ELSE [@ EXCEPT !.pc = "fetched",
                                   !.rows = SelectRatingLatLng(store),
                                   !.reads = @ + 1,
                                   !.snap = store]]
    /\ UNCHANGED <<store, last>>

\* lines 254-261: the response computed from the rows within the circle;
\* statistics.stdev raises StatisticsError for fewer than two values
aggregate(inside) ==
    LET count == len(inside)
    IN  IF count = 0 THEN HTTPException(404, "Restaurants not found")
        ELSE IF count < 2 THEN Unhandled("StatisticsError")
        ELSE Returned({[count |-> count, avg |-> mean(inside),
                        std |-> stdev(inside)]})

\* statistics_finish reading the table again instead of using its rows
statistics_finish_reread(p) ==
    /\ stat[p].pc = "fetched"
    /\ LET s == stat[p]
           inside == inside_circle(SelectRatingLatLng(store), s.latitude[1],
                                   s.longitude[1], s.radius[1])
       IN  stat' = [stat EXCEPT ![p] =
                      [s EXCEPT !.pc = "done", !.conn = "closed",
                                !.inside = inside, !.resp = aggregate(inside)]]
    /\ UNCHANGED <<store, last>>

\* lines 244-261: close, filter, count, avg, std
statistics_finish(p) ==
    /\ stat[p].pc = "fetched"
    /\ LET s == stat[p]
           inside == inside_circle(s.rows, s.latitude[1], s.longitude[1],
                                   s.radius[1])
       IN  stat' = [stat EXCEPT ![p] =
                      [s EXCEPT !.pc = "done", !.conn = "closed",
                                !.inside = inside, !.resp = aggregate(inside)]]
    /\ UNCHANGED <<store, last>>

\* the response is sent and the locals of the call are dropped
statistics_return(p) ==
    /\ stat[p].pc = "done"
    /\ stat' = [stat EXCEPT ![p] = Idle]
    /\ UNCHANGED <<store, last>>

----------------------------------------------------------------------------
(* Specifications *)

Boot == Served("", <<>>, "", "", NoQuery, "none", NoResponse, "none")

\* the queries a GET /restaurants/<id> request carries in the model
HttpQueries == {NoQuery, <<Some(0), Some(0), Some(BoundaryRadius)>>}

\* every table that respects the primary key
Tables ==
    LET Rows == {None} \cup {<<r, p[1], p[2]>> : r \in Ratings, p \in Places}
    IN  {{Restaurant(i, f[i][1], f[i][2], f[i][3]) : i \in {j \in Ids : f[j] # None}} :
            f \in [Ids -> Rows]}

\* the service serving one HTTP request at a time, from an empty database
Init ==
    /\ store = {}
    /\ stat = [p \in Procs |-> Idle]
    /\ last = Boot

Startup == \E csv \in CsvFiles : create_table_and_import_data(csv)

GetAll == \E fault \in Faults : get_all_restaurants(fault)

GetById ==
    \E id \in Ids, query \in HttpQueries, fault \in Faults :
        get_restaurant_by_id(id, query, fault)

Create == \E b \in Bodies, fault \in Faults : create_restaurant(b, fault)

Update ==
    \E id \in Ids, b \in Bodies, fault \in Faults : update_restaurant(id, b, fault)

Delete == \E id \in Ids, fault \in Faults : delete_restaurant(id, fault)

Next == Startup \/ GetAll \/ GetById \/ Create \/ Update \/ Delete

Spec == Init /\ [][Next]_vars

\* one statistics call at a time over an arbitrary table
InitStats ==
    /\ store \in Tables
    /\ stat = [p \in Procs |-> Idle]
    /\ last = Boot

StatsCall ==
    \E latitude \in Latitudes, longitude \in Longitudes, radius \in Radii :
        get_restaurants_statistics(1, latitude, longitude, radius)

StatsConnect == \E fails \in BOOLEAN : statistics_connect(1, fails)

StatsRead == \E fault \in {"none", "execute", "fetchall"} : statistics_read(1, fault)

StatsFinish == statistics_finish(1)

StatsReturn == statistics_return(1)

NextStats == StatsCall \/ StatsConnect \/ StatsRead \/ StatsFinish \/ StatsReturn

SpecStats == InitStats /\ [][NextStats]_vars

\* statistics calls of several workers interleaved with writes
ConcBodies == {Restaurant("1", 1, 0, 0), Restaurant("2", 5, 0, 0)}

ConcCall == \E p \in Procs : get_restaurants_statistics(p, Some(0), Some(0), Some(1))

ConcConnect == \E p \in Procs : statistics_connect(p, FALSE)

ConcRead == \E p \in Procs : statistics_read(p, "none")

ConcFinish == \E p \in Procs : statistics_finish(p)

ConcReturn == \E p \in Procs : statistics_return(p)

ConcCreate == \E b \in ConcBodies : create_restaurant(b, "none")

ConcUpdate == \E a \in ConcBodies, b \in ConcBodies : update_restaurant(a.id, b, "none")

ConcDelete == \E b \in ConcBodies : delete_restaurant(b.id, "none")

NextConc ==
    \/ ConcCall \/ ConcConnect \/ ConcRead \/ ConcFinish \/ ConcReturn
    \/ ConcCreate \/ ConcUpdate \/ ConcDelete

SpecConc == Init /\ [][NextConc]_vars

----------------------------------------------------------------------------
(* Properties *)

Row(r) == <<r.rating, r.lat, r.lng>>

\* the records of table S at a distance of at most radius from the query point
Near(S, latitude, longitude, radius) ==
    {r \in S : haversine_distance(latitude[1], longitude[1], r.lat, r.lng)
                  <= radius[1]}

\* the records a statistics call read that lie within its radius
NearOf(s) == Near(s.snap, s.latitude, s.longitude, s.radius)

RECURSIVE RatingSum(_)
RatingSum(S) ==
    IF S = {} THEN 0
    ELSE LET r == CHOOSE u \in S : TRUE IN r.rating + RatingSum(S \ {r})

RECURSIVE SquaredDeviations(_, _, _)
\* the sum over S of (n * rating - total)^2, n^2 times the squared deviations
SquaredDeviations(S, n, total) ==
    IF S = {} THEN 0
    ELSE LET r == CHOOSE u \in S : TRUE
         IN  (n * r.rating - total) * (n * r.rating - total)
               + SquaredDeviations(S \ {r}, n, total)

Missing == "Latitude, longitude, and radius are required query parameters."

BadLatitude == "Invalid latitude value. Must be between -90 and 90."

BadLongitude == "Invalid longitude value. Must be between -180 and 180."

BadRadius == "Invalid radius value. Must be greater than 0."

StatisticsPath == <<"restaurants", "statistics">>

\* C1: a GET of /restaurants/statistics with valid latitude, longitude and
\* radius is served by the statistics operation, and answers 200 whenever at
\* least two stored records lie within the radius.
C1_StatisticsRouteServed ==
    ( /\ last.method = "GET"
      /\ last.path = StatisticsPath
      /\ last.fault = "none"
      /\ validation(last.query[1], last.query[2], last.query[3]) = ""
      /\ Cardinality(Near(store, last.query[1], last.query[2], last.query[3])) >= 2 )
    => ( last.handler = "get_restaurants_statistics" /\ last.status = 200 )

\* C2: the statistics operation answers with the first failing check in the
\* order presence, latitude, longitude, radius; a failure is a 400 raised
\* before the table is read or a connection opened, and a request passing
\* every check never gets a 400.
C2_ValidationOrder ==
    \A p \in Procs :
        LET s == stat[p]
            expected ==
                IF s.latitude = None \/ s.longitude = None \/ s.radius = None
                  THEN Missing
                ELSE IF s.latitude[1] < -90 \/ s.latitude[1] > 90
                  THEN BadLatitude
                ELSE IF s.longitude[1] < -180 \/ s.longitude[1] > 180
                  THEN BadLongitude
                ELSE IF s.radius[1] <= 0 THEN BadRadius
                ELSE ""
        IN  s.pc # "idle" =>
              IF expected # ""
                THEN /\ s.pc = "done"
                     /\ s.resp = HTTPException(400, expected)
                     /\ s.reads = 0
                     /\ s.conn = "none"
                ELSE s.resp.status # 400

\* an out-of-range latitude with an absent longitude reported as missing
C2_Witness ==
    \E p \in Procs :
        /\ stat[p].pc = "done"
        /\ stat[p].latitude = Some(200)
        /\ stat[p].longitude = None
        /\ stat[p].resp = HTTPException(400, Missing)

\* C3: a valid statistics request matching exactly one record ends in an
\* outcome the operation defines, never in an unhandled exception.
C3_SingleRecordDefined ==
    \A p \in Procs :
        ( /\ stat[p].pc = "done"
          /\ stat[p].reads = 1
          /\ Cardinality(NearOf(stat[p])) = 1 )
        => stat[p].resp.kind # "unhandled"

\* C4: the rows aggregated are exactly the rows of the records read whose
\* distance is <= radius (boundary included), the outcome is 404 exactly when
\* there is none, and a returned count is their number.
C4_FilterExact ==
    \A p \in Procs :
        LET s == stat[p]
            near == NearOf(s)
        IN  (s.pc = "done" /\ s.reads = 1) =>
              /\ DOMAIN s.inside = {Row(r) : r \in near}
              /\ \A t \in DOMAIN s.inside :
                    s.inside[t] = Cardinality({r \in near : Row(r) = t})
              /\ (s.resp.status = 404) <=> (near = {})
              /\ \A b \in s.resp.body :
                    b.count = Cardinality(near) /\ b.count >= 1

\* a result that counts a record at a distance equal to the radius
C4_Witness ==
    \E p \in Procs :
        LET s == stat[p]
        IN  /\ s.pc = "done"
            /\ s.resp.status = 200
            /\ \E r \in s.snap :
                  /\ haversine_distance(s.latitude[1], s.longitude[1],
                                        r.lat, r.lng) = s.radius[1]
                  /\ Row(r) \in DOMAIN s.inside

\* C5: for at least two matched records avg is the sum of the matched ratings
\* over count and std is the square root of the squared deviations from the
\* mean over count - 1 (both to the thousandth); ratings 1, 3, 5 give
\* count = 3, avg = 3, std = 2.
C5_MeanAndSampleDeviation ==
    \A p \in Procs :
        LET s == stat[p]
            near == NearOf(s)
            n == Cardinality(near)
            total == RatingSum(near)
            dev == SquaredDeviations(near, n, total) * Scale * Scale
            den == n * n * (n - 1)
        IN  (s.pc = "done" /\ s.resp.status = 200) =>
              /\ n >= 2
              /\ \A b \in s.resp.body :
                    /\ b.count = n
                    /\ b.avg * n <= total * Scale
                    /\ total * Scale < (b.avg + 1) * n
                    /\ b.std * b.std * den <= dev
                    /\ dev < (b.std + 1) * (b.std + 1) * den
                    /\ (n = 3 /\ {r.rating : r \in near} = {1, 3, 5}) =>
                          b = [count |-> 3, avg |-> 3 * Scale, std |-> 2 * Scale]
              /\ s.resp.body # {}

\* the result for three matched records rated 1, 3 and 5
C5_Witness ==
    \E p \in Procs :
        /\ stat[p].pc = "done"
        /\ {r.rating : r \in NearOf(stat[p])} = {1, 3, 5}
        /\ stat[p].resp.body = {[count |-> 3, avg |-> 3000, std |-> 2000]}

\* C6: get, update and delete of an id that is not stored leave the table as
\* it was and, the storage working, answer 404; for a stored id none of the
\* three answers 404.
C6_AbsentIdIs404 ==
    [][ last'.handler \in {"get_restaurant_by_id", "update_restaurant",
                           "delete_restaurant"} =>
          IF HasId(store, last'.id)
            THEN last'.status # 404
            ELSE /\ store' = store
                 /\ (last'.fault = "none" => last'.status = 404) ]_vars

\* an update of an id that is not stored, answered 404
C6_Witness ==
    /\ last.handler = "update_restaurant"
    /\ last.status = 404
    /\ ~HasId(store, last.id)
    /\ store # {}

\* C7: a statistics request whose table access fails ends with a 500 raised
\* by the operation itself, without count, avg or std.
C7_StorageFailureReported ==
    \A p \in Procs :
        (stat[p].pc = "done" /\ stat[p].fault # "none") =>
            /\ stat[p].resp.status = 500
            /\ stat[p].resp.kind = "http"
            /\ stat[p].resp.body = {}

\* the outcome of a statistics call that read table S
StatisticsOf(S, latitude, longitude, radius) ==
    aggregate(inside_circle(SelectRatingLatLng(S), latitude[1], longitude[1],
                            radius[1]))

C8_Snapshot ==
    \A p \in Procs :
        LET s == stat[p]
        IN  /\ s.reads <= 1
            /\ (s.pc = "done" /\ s.fault = "none" /\ s.resp.status # 400) =>
                  /\ s.reads = 1
                  /\ s.resp = StatisticsOf(s.snap, s.latitude, s.longitude,
                                           s.radius)

\* C8: under every interleaving with creates, updates and deletes a statistics
\* request reads the table once, its outcome is the statistics of the table
\* at that read, whatever the other requests do, and its steps leave the
\* table unchanged.
C8_SnapshotIsolation ==
    /\ []C8_Snapshot
    /\ [][stat' # stat => store' = store]_vars

\* two finished statistics requests with different outcomes, the table
\* having changed since each of them read it
C8_Witness ==
    \E p \in Procs, q \in Procs :
        /\ p # q
        /\ stat[p].pc = "done"
        /\ stat[q].pc = "done"
        /\ stat[p].resp.status = 200
        /\ stat[q].resp.status = 404
        /\ stat[p].snap # store
        /\ stat[q].snap # store

KeyUnique == \A r1 \in store, r2 \in store : r1.id = r2.id => r1 = r2

\* C9: the table holds at most one record per id; a create of a stored id
\* answers 500 and changes nothing, the startup import keeps every stored
\* record, and an update changes the record with the path id only and no id.
C9_UniqueIds ==
    /\ []KeyUnique
    /\ [][ /\ (last'.handler = "create_restaurant" /\ HasId(store, last'.id))
              => (last'.status = 500 /\ store' = store)
           /\ (last'.handler = "startup_event" => store \subseteq store')
           /\ (last'.handler = "update_restaurant" =>
                 /\ {r.id : r \in store'} = {r.id : r \in store}
                 /\ \A r \in store : r.id # last'.id => r \in store') ]_vars

\* a create of a stored id refused by the table
C9_Witness ==
    /\ last.handler = "create_restaurant"
    /\ last.fault = "none"
    /\ last.status = 500
    /\ HasId(store, last.id)

\* C10: a request that ended has no connection open.
C10_ConnectionsClosed ==
    /\ last.conn # "open"
    /\ \A p \in Procs : stat[p].pc = "done" => stat[p].conn # "open"

====
